---------------------------- MODULE Spec2Model ----------------------------
(***************************************************************************)
(* Model of the history reconciliation and asynchronous-run tracking of    *)
(* frontend/app.js: the record store (state.history and its localStorage   *)
(* copy), reconciliation against the server's run list, the patch          *)
(* functions, the run poller and the pending-indicator state.              *)
(*                                                                         *)
(* The browser is single-threaded: every action below is one event-loop    *)
(* task (an event handler up to its first await, the continuation after an *)
(* await, or a timer callback) and runs atomically.  The server is the     *)
(* environment; its runs and sessions are kept in the srv* variables.      *)
(***************************************************************************)
EXTENDS Naturals, Sequences, FiniteSets, TLC

\* ------------------------------------------------------------------ bounds
Runs == {"r1", "r2"}            \* run ids the server may assign
Sessions == {"s1", "s2"}        \* session ids the server may assign
MaxIds == 2                     \* cryptoId() calls per page
MaxChains == 2                  \* pollRun chains alive at once
MaxTime == 1                    \* clock ticks
MaxFetches == 4                 \* status fetches counted per run (SpecPoll)

\* ------------------------------------------------------- program constants
HistoryCap == 100               \* state.history.slice(0, 100)

\* --------------------------------------------------------------- JS values
NULL == "null"                  \* JSON/JS null
UNDEF == "undefined"            \* an absent property
Truthy(v) == v \notin {NULL, UNDEF, "0", ""}
OrNull(v) == IF Truthy(v) THEN v ELSE NULL          \* v || null
SessionVals == Sessions \cup {NULL}
SessionKey(s) == "session:" \o s                    \* `session:${record.sessionId}`

Min(a, b) == IF a <= b THEN a ELSE b
Prefix(seq, n) == SubSeq(seq, 1, Min(n, Len(seq)))  \* seq.slice(0, n)
RemoveAt(seq, i) == SubSeq(seq, 1, i - 1) \o SubSeq(seq, i + 1, Len(seq))
\* findIndex: the first index whose element satisfies the test, 0 for -1
FindIndex(seq, Test(_)) ==
    IF \E i \in 1..Len(seq) : Test(seq[i])
    THEN CHOOSE i \in 1..Len(seq) :
            Test(seq[i]) /\ \A j \in 1..(i - 1) : ~Test(seq[j])
    ELSE 0
MapSeq(F(_), seq) == [i \in 1..Len(seq) |-> F(seq[i])]
RangeOf(seq) == {seq[i] : i \in 1..Len(seq)}

\* ------------------------------------------------------------ record shape
Fields == {"id", "sessionId", "updatedAt", "matchesCount", "referenceOptionsCount",
           "selectedReferenceDrug",
           "selectionJsonPath", "analysisText", "runId",
           "synopsisDocxUrl", "synopsisStatus"}
\* a patch that replaces the record, keeping only its identity
MergeReplacing(rec, patch) ==
    [f \in DOMAIN rec \cup DOMAIN patch |->
        IF f \in DOMAIN patch THEN patch[f]
        ELSE IF f \in {"id", "sessionId"} THEN rec[f] ELSE NULL]
\* { ...rec, ...patch }: the patch's own fields overwrite, the others stay
Merge(rec, patch) ==
    [f \in DOMAIN rec \cup DOMAIN patch |->
        IF f \in DOMAIN patch THEN patch[f] ELSE rec[f]]

VARIABLES
    \* ---- client state (the `state` object, localStorage and the DOM timeline)
    history,            \* state.history
    activeHistoryId,    \* state.activeHistoryId
    persisted,          \* localStorage[HISTORY_KEY]
    nextId,             \* number of cryptoId() values drawn
    searchPending,      \* state.searchPending
    actionPending,      \* state.actionPending
    actionReq,          \* the choose/analyze request in flight: [sessionId, mode]
    pendingRunId,       \* state.pendingRunId (the pending key)
    pendingMessage,     \* state.pendingMessage # null
    pendingSessions,    \* state.pendingSessions
    runningRunIds,      \* state.runningRunIds
    runningBySession,   \* state.runningBySession
    timeline,           \* messages mounted in dom.timeline that carry state
    listReq,            \* the /runs/list request of init(): "inflight" | "done"
    polls,              \* per run: pollRun chains awaiting a response / a timer
    deleteReqs,         \* /runs/delete requests in flight
    synReqs,            \* /synopsis requests in flight
    \* ---- environment
    now,                \* the clock read by new Date()
    srvStatus,          \* server: run id -> "none" | "running" | "done" | "deleted"
    srvSession,         \* server: run id -> session_id
    srvSessions,        \* server: session ids issued so far
    \* ---- observers
    fetchCount,         \* status fetches issued, per watched run
    observed,           \* statuses the fetches returned, per watched run
    lastOp              \* the handler that ran last

storeVars == <<history, activeHistoryId, persisted, nextId>>
pendVars == <<pendingRunId, pendingMessage, pendingSessions, runningRunIds,
              runningBySession>>
reqVars == <<searchPending, actionPending, actionReq, listReq, deleteReqs, synReqs>>
srvVars == <<srvStatus, srvSession, srvSessions>>
pollVars == <<polls, fetchCount, observed>>
vars == <<history, activeHistoryId, persisted, nextId, searchPending, actionPending,
          actionReq, pendingRunId, pendingMessage, pendingSessions, runningRunIds,
          runningBySession, timeline, listReq, polls, deleteReqs, synReqs, now,
          srvStatus, srvSession, srvSessions, fetchCount, observed, lastOp>>

\* -------------------------------------------------------- server run objects
DrugOf(r) == "drug:" \o r
JsonOf(r) == "json:" \o r
TextOf(r) == "text:" \o r
\* the run object the server reports for r (one entry of /runs/list, /runs/get)
\* the number of reference options the search reports next to its matches
RefOptionsOf(matches) == IF matches = "0" THEN "0" ELSE "3"

SrvRun(r) ==
    [id |-> r,
     session_id |-> srvSession[r],
     status |-> srvStatus[r],
     created_at |-> 0,
     selected_reference_drug |-> DrugOf(r),
     selection_file_path |-> JsonOf(r),
     router_output_text |-> IF srvStatus[r] = "done" THEN TextOf(r) ELSE NULL]

\* ------------------------------------------------------------- record store
\* The store functions work on st = [history, activeHistoryId, persisted, nextId];
\* ok says whether localStorage.setItem succeeds (its failure is swallowed).
Store == [history |-> history, activeHistoryId |-> activeHistoryId,
          persisted |-> persisted, nextId |-> nextId]
SetStore(st) ==
    /\ history' = st.history
    /\ activeHistoryId' = st.activeHistoryId
    /\ persisted' = st.persisted
    /\ nextId' = st.nextId

cryptoId(st) == "h" \o ToString(st.nextId + 1)

saveHistory(st, ok) ==
    [st EXCEPT !.persisted = IF ok THEN Prefix(st.history, HistoryCap) ELSE @]

mapRunToHistory(run) ==
    [id |-> run.id,
     sessionId |-> OrNull(run.session_id),
     updatedAt |-> run.created_at,
     matchesCount |-> NULL,
     referenceOptionsCount |-> NULL,
     selectedReferenceDrug |-> OrNull(run.selected_reference_drug),
     selectionJsonPath |-> OrNull(run.selection_file_path),
     analysisText |-> OrNull(run.router_output_text),
     runId |-> run.id,
     synopsisDocxUrl |-> NULL,
     synopsisStatus |-> NULL]

\* a reconciliation that keeps the server's records only
ReconcileServerOnly(runs, local) == MapSeq(mapRunToHistory, runs)

\* a reconciliation that drops the local records by run id only
ReconcileByRunOnly(runs, local) ==
    LET serverItems == MapSeq(mapRunToHistory, runs)
        serverIds == {serverItems[i].runId : i \in 1..Len(serverItems)}
        Keep(h) == ~(Truthy(h.runId) /\ h.runId \in serverIds)
    IN serverItems \o SelectSeq(local, Keep)

\* reconcile(serverRuns, localRecords) of loadHistoryFromServer
Reconcile(runs, local) ==
    LET serverItems == MapSeq(mapRunToHistory, runs)
        serverIds == {serverItems[i].runId : i \in 1..Len(serverItems)}
        serverSessions == {serverItems[i].sessionId : i \in 1..Len(serverItems)}
                            \ {NULL, UNDEF}
        Keep(h) == /\ ~(Truthy(h.runId) /\ h.runId \in serverIds)
                   /\ ~(Truthy(h.sessionId) /\ h.sessionId \in serverSessions)
        localOnly == SelectSeq(local, Keep)
    IN serverItems \o localOnly

\* the ids of all the runs of the list, whatever their status
AllRunIdsOf(runs) == {runs[i].id : i \in 1..Len(runs)}

RunningRunIdsOf(runs) == {runs[i].id : i \in {j \in 1..Len(runs) : runs[j].status = "running"}}
\* Map.set in list order: the last running run of a session wins
RECURSIVE RunningBySessionOf(_)
RunningBySessionOf(runs) ==
    IF runs = <<>> THEN [s \in {} |-> NULL]
    ELSE LET r == runs[Len(runs)]
             rest == RunningBySessionOf(SubSeq(runs, 1, Len(runs) - 1))
         IN IF r.status = "running" /\ Truthy(r.session_id)
            THEN [s \in DOMAIN rest \cup {r.session_id} |->
                    IF s = r.session_id THEN r.id ELSE rest[s]]
            ELSE rest

\* a search result that makes a record even when nothing matched
handleSearchResultAlways(st, result, t, ok) ==
    LET rec == [id |-> cryptoId(st),
                sessionId |-> result.session_id,
                updatedAt |-> t,
                matchesCount |-> result.matches_count,
                referenceOptionsCount |-> result.reference_options_count,
                selectedReferenceDrug |-> NULL,
                selectionJsonPath |-> NULL,
                analysisText |-> NULL,
                runId |-> NULL,
                synopsisDocxUrl |-> UNDEF,
                synopsisStatus |-> UNDEF]
    IN saveHistory([st EXCEPT !.history = <<rec>> \o @,
                              !.activeHistoryId = rec.id,
                              !.nextId = @ + 1], ok)

handleSearchResult(st, result, t, ok) ==
    IF ~Truthy(result.matches_count) THEN st
    ELSE LET rec == [id |-> cryptoId(st),
                     sessionId |-> result.session_id,
                     updatedAt |-> t,
                     matchesCount |-> result.matches_count,
                     referenceOptionsCount |-> result.reference_options_count,
                     selectedReferenceDrug |-> NULL,
                     selectionJsonPath |-> NULL,
                     analysisText |-> NULL,
                     runId |-> NULL,
                     synopsisDocxUrl |-> UNDEF,
                     synopsisStatus |-> UNDEF]
         IN saveHistory([st EXCEPT !.history = <<rec>> \o @,
                                   !.activeHistoryId = rec.id,
                                   !.nextId = @ + 1], ok)

\* a materialization that does not look for the run's record first
ensureHistoryFromRunAlways(st, run, ok) ==
    LET rec == [id |-> cryptoId(st),
                sessionId |-> OrNull(run.session_id),
                updatedAt |-> run.created_at,
                matchesCount |-> NULL,
                referenceOptionsCount |-> NULL,
                selectedReferenceDrug |-> OrNull(run.selected_reference_drug),
                selectionJsonPath |-> OrNull(run.selection_file_path),
                analysisText |-> OrNull(run.router_output_text),
                runId |-> run.id,
                synopsisDocxUrl |-> UNDEF,
                synopsisStatus |-> UNDEF]
    IN saveHistory([st EXCEPT !.history = <<rec>> \o @,
                              !.nextId = @ + 1], ok)

ensureHistoryFromRun(st, run, ok) ==
    IF \E i \in 1..Len(st.history) : st.history[i].runId = run.id THEN st
    ELSE LET rec == [id |-> cryptoId(st),
                     sessionId |-> OrNull(run.session_id),
                     updatedAt |-> run.created_at,
                     matchesCount |-> NULL,
                     referenceOptionsCount |-> NULL,
                     selectedReferenceDrug |-> OrNull(run.selected_reference_drug),
                     selectionJsonPath |-> OrNull(run.selection_file_path),
                     analysisText |-> OrNull(run.router_output_text),
                     runId |-> run.id,
                     synopsisDocxUrl |-> UNDEF,
                     synopsisStatus |-> UNDEF]
         IN saveHistory([st EXCEPT !.history = <<rec>> \o @,
                                   !.nextId = @ + 1], ok)

\* a patch that creates the record it does not find
patchHistoryUpserting(st, sessionId, patch, ok) ==
    LET Hit(h) == h.sessionId = sessionId
        idx == FindIndex(st.history, Hit)
        blank == [f \in Fields |-> IF f = "sessionId" THEN sessionId ELSE NULL]
        item == Merge(IF idx = 0 THEN blank ELSE st.history[idx], patch)
    IN saveHistory([st EXCEPT
            !.history = IF idx = 0 THEN <<item>> \o @
                        ELSE IF idx > 1 THEN <<item>> \o RemoveAt(@, idx)
                        ELSE [@ EXCEPT ![idx] = item],
            !.activeHistoryId = item.id], ok)

\* a patch that unshifts the merged record and forgets to splice the old one
patchHistoryDuplicating(st, sessionId, patch, ok) ==
    LET Hit(h) == h.sessionId = sessionId
        idx == FindIndex(st.history, Hit)
    IN IF idx = 0 THEN st
       ELSE LET item == Merge(st.history[idx], patch)
            IN saveHistory([st EXCEPT !.history = <<item>> \o @,
                                      !.activeHistoryId = item.id], ok)

patchHistory(st, sessionId, patch, ok) ==
    LET Hit(h) == h.sessionId = sessionId
        idx == FindIndex(st.history, Hit)
    IN IF idx = 0 THEN st
       ELSE LET item == Merge(st.history[idx], patch)
            IN saveHistory([st EXCEPT
                    !.history = IF idx > 1 THEN <<item>> \o RemoveAt(@, idx)
                                ELSE [@ EXCEPT ![idx] = item],
                    !.activeHistoryId = item.id], ok)

patchHistoryByRunId(st, runId, patch, ok) ==
    LET Hit(h) == h.runId = runId
        idx == FindIndex(st.history, Hit)
    IN IF idx = 0 THEN st
       ELSE saveHistory([st EXCEPT
                !.history = [@ EXCEPT ![idx] = Merge(@, patch)]], ok)

SynopsisPatch(synopsis) ==
    [synopsisDocxUrl |-> OrNull(synopsis.download_url),
     synopsisStatus |-> OrNull(synopsis.status)]
updateHistoryWithSynopsis(st, runId, synopsis, ok) ==
    IF ~Truthy(runId) THEN st
    ELSE patchHistoryByRunId(st, runId, SynopsisPatch(synopsis), ok)

\* a choose patch that leaves the run id out
ChoosePatchWithoutRun(result, t) ==
    [updatedAt |-> t,
     selectedReferenceDrug |-> result.selected_reference_drug,
     selectionJsonPath |-> result.saved_json_path]
ChoosePatch(result, t) ==
    [updatedAt |-> t,
     selectedReferenceDrug |-> result.selected_reference_drug,
     selectionJsonPath |-> result.saved_json_path,
     runId |-> OrNull(result.run_id)]
updateHistoryFromChoose(st, result, t, ok) ==
    patchHistory(st, result.session_id, ChoosePatch(result, t), ok)

PipelinePatch(result, t) ==
    [updatedAt |-> t,
     selectedReferenceDrug |-> result.selection.selected_reference_drug,
     selectionJsonPath |-> result.selection.saved_json_path,
     analysisText |-> IF result.router.analysis_text # UNDEF
                      THEN result.router.analysis_text ELSE NULL,
     runId |-> OrNull(result.selection.run_id)]
updateHistoryFromPipeline(st, result, t, ok) ==
    patchHistory(st, result.selection.session_id, PipelinePatch(result, t), ok)

buildPipelineResultFromRun(run) ==
    [selection |-> [run_id |-> run.id,
                    session_id |-> run.session_id,
                    saved_json_path |-> OrNull(run.selection_file_path),
                    selected_reference_drug |-> OrNull(run.selected_reference_drug)],
     router |-> [analysis_text |-> IF run.router_output_text # UNDEF
                                   THEN run.router_output_text ELSE NULL]]

RemoveActiveIfGone(st) ==
    IF Truthy(st.activeHistoryId)
       /\ \A i \in 1..Len(st.history) : st.history[i].id # st.activeHistoryId
    THEN [st EXCEPT !.activeHistoryId = NULL] ELSE st

removeHistoryByRunId(st, runId, ok) ==
    LET Hit(h) == h.runId = runId
        idx == FindIndex(st.history, Hit)
    IN IF idx = 0 THEN st
       ELSE saveHistory(RemoveActiveIfGone(
                [st EXCEPT !.history = RemoveAt(@, idx)]), ok)

\* getActiveRecord(): <<record>>, or <<>> for null
getActiveRecord(st) ==
    LET Hit(h) == h.id = st.activeHistoryId
        idx == FindIndex(st.history, Hit)
    IN IF idx = 0 THEN <<>> ELSE <<st.history[idx]>>

isRunRelatedToRecord(run, record) ==
    \/ Truthy(record.runId) /\ run.id = record.runId
    \/ Truthy(record.sessionId) /\ Truthy(run.session_id)
        /\ record.sessionId = run.session_id

\* ---------------------------------------------------------- pending tracker
getRunningRunIdForRecord(record, rr, rbs) ==
    IF Truthy(record.runId) /\ record.runId \in rr THEN record.runId
    ELSE IF Truthy(record.sessionId) /\ record.sessionId \in DOMAIN rbs
         THEN OrNull(rbs[record.sessionId])
         ELSE NULL

\* The pending indicator and the pollers: ui = [pendingRunId, pendingMessage, polls].
\* polls[r] = [f |-> chains of r awaiting the response of their fetch,
\*             w |-> chains of r awaiting their retry timer]
Ui == [pendingRunId |-> pendingRunId, pendingMessage |-> pendingMessage,
       polls |-> polls]
TotalChains(p) == LET RECURSIVE Sum(_)
                      Sum(S) == IF S = {} THEN 0
                                ELSE LET r == CHOOSE x \in S : TRUE
                                     IN p[r].f + p[r].w + Sum(S \ {r})
                  IN Sum(Runs)
\* polls' = p; the observer counts the fetches the step issues for the runs it
\* watches (DOMAIN fetchCount) and keeps the statuses they returned (seen); the
\* model's bounds cut the step off when reached
SetPollsSeen(p, seen) ==
    /\ TotalChains(p) <= MaxChains
    /\ polls' = p
    /\ fetchCount' = [r \in DOMAIN fetchCount |->
            IF p[r].f > polls[r].f THEN fetchCount[r] + (p[r].f - polls[r].f)
            ELSE fetchCount[r]]
    /\ \A r \in DOMAIN fetchCount : fetchCount'[r] <= MaxFetches
    /\ observed' = seen
SetPolls(p) == SetPollsSeen(p, observed)
Seen(runId, status) ==
    [r \in DOMAIN observed |->
        IF r = runId THEN Append(observed[r], status) ELSE observed[r]]
SetUi(ui) ==
    /\ pendingRunId' = ui.pendingRunId
    /\ pendingMessage' = ui.pendingMessage
    /\ SetPolls(ui.polls)

\* pollRun(runId) up to its await: one more status fetch in flight
StartPoll(p, runId) == [p EXCEPT ![runId].f = @ + 1]

maybeShowRunningForRecord(ui, record, rr, rbs, ps) ==
    LET runId == getRunningRunIdForRecord(record, rr, rbs)
        localPending == Truthy(record.sessionId) /\ record.sessionId \in ps
        pendingKey == IF Truthy(runId) THEN runId ELSE SessionKey(record.sessionId)
    IN IF ~Truthy(runId) /\ ~localPending THEN ui
       ELSE IF ui.pendingRunId = pendingKey THEN ui
       ELSE [pendingRunId |-> pendingKey,
             pendingMessage |-> TRUE,
             polls |-> IF Truthy(runId) THEN StartPoll(ui.polls, runId) ELSE ui.polls]

\* ------------------------------------------------------------------ timeline
\* Only the messages whose buttons or presence matter are kept:
\*   card  - a reference card with pick-reference buttons for a session
\*   del   - a message with a delete-run button for a run
\*   syn   - a synopsis block with a build-synopsis button for a run
\*   error - a message mounted by appendError
Item(kind, key) == [kind |-> kind, key |-> key]
ErrorItem == Item("error", NULL)
\* what appendChooseOnly / appendPipeline / renderHistoryConversation mount
RunItems(runId, withSynopsis) ==
    IF ~Truthy(runId) THEN {}
    ELSE {Item("del", runId)} \cup (IF withSynopsis THEN {Item("syn", runId)} ELSE {})
SynReq(kind, runId) == [kind |-> kind, runId |-> runId]
HydrateReqs(runId) == IF Truthy(runId) THEN {SynReq("hydrate", runId)} ELSE {}

NoReq == [sessionId |-> NULL, mode |-> NULL]
\* the observer's tag: the handler that ran, the run, session or record it was
\* for and, as a sequence, what the response it handled carried (the run id of a
\* choose / analyze response, the match count of a search response, the run ids
\* of a run list in list order)
OpArg(name, key, arg) == [op |-> name, key |-> key, arg |-> arg]
Op(name, key) == OpArg(name, key, <<>>)
SaveOutcomes == {TRUE, FALSE}
EmptyMap == [s \in {} |-> NULL]
NoPolls == [r \in Runs |-> [f |-> 0, w |-> 0]]

\* ---------------------------------------------------------------------- Init
\* A freshly opened page: the constructor's state, loadHistory() of an empty
\* localStorage, and init() suspended at `await loadHistoryFromServer()`.
InitPage ==
    /\ activeHistoryId = NULL
    /\ searchPending = FALSE
    /\ actionPending = FALSE
    /\ actionReq = NoReq
    /\ pendingRunId = NULL
    /\ pendingMessage = FALSE
    /\ pendingSessions = {}
    /\ runningRunIds = {}
    /\ runningBySession = EmptyMap
    /\ timeline = {}
    /\ listReq = "inflight"
    /\ polls = NoPolls
    /\ deleteReqs = {}
    /\ synReqs = {}
    /\ now = 0
    /\ lastOp = Op("init", NULL)
\* nothing has been stored yet, here or on the server
InitEmpty ==
    /\ history = <<>>
    /\ persisted = <<>>
    /\ nextId = 0
    /\ srvStatus = [r \in Runs |-> "none"]
    /\ srvSession = [r \in Runs |-> NULL]
    /\ srvSessions = {}
\* the observer of the status fetches watches the runs of `watched`
InitObserver(watched) ==
    /\ fetchCount = [r \in watched |-> 0]
    /\ observed = [r \in watched |-> <<>>]
Init == InitPage /\ InitEmpty /\ InitObserver({})

\* --------------------------------------------------------------- environment
LiveRuns == {r \in Runs : srvStatus[r] \in {"running", "done"}}
FreshRun == "r" \o ToString(Cardinality({r \in Runs : srvStatus[r] # "none"}) + 1)
FreshSession == "s" \o ToString(Cardinality(srvSessions) + 1)
\* the orders in which /runs/list may report the server's runs
RunLists ==
    LET n == Cardinality(LiveRuns)
        orders == {o \in [1..n -> LiveRuns] : \A i, j \in 1..n : o[i] = o[j] => i = j}
    IN {[i \in 1..n |-> SrvRun(o[i])] : o \in orders}

\* new Date() moves on
Tick ==
    /\ now < MaxTime
    /\ now' = now + 1
    /\ lastOp' = Op("Tick", NULL)
    /\ UNCHANGED <<storeVars, pendVars, reqVars, srvVars, timeline, pollVars>>

\* The server creates a run (for an analyze or choose request of this or of
\* another client): a new id, the session it belongs to (if any), status running.
SrvCreateRun(s) ==
    /\ FreshRun \in Runs
    /\ s \in {NULL} \cup srvSessions \cup ({FreshSession} \cap Sessions)
    /\ srvStatus' = [srvStatus EXCEPT ![FreshRun] = "running"]
    /\ srvSession' = [srvSession EXCEPT ![FreshRun] = s]
    /\ srvSessions' = srvSessions \cup ({s} \ {NULL})
    /\ lastOp' = Op("SrvCreateRun", FreshRun)
    /\ UNCHANGED <<storeVars, pendVars, reqVars, timeline, pollVars, now>>

\* The server's pipeline finishes a run.
SrvFinishRun(r) ==
    /\ srvStatus[r] = "running"
    /\ srvStatus' = [srvStatus EXCEPT ![r] = "done"]
    /\ lastOp' = Op("SrvFinishRun", r)
    /\ UNCHANGED <<storeVars, pendVars, reqVars, timeline, pollVars, now,
                   srvSession, srvSessions>>

\* ------------------------------------------------- init(): reconciliation
\* restorePendingRun(), which init() calls right after loadHistoryFromServer()
restorePendingRun(ui, st, rr, rbs, ps) ==
    LET activeRecord == getActiveRecord(st)
    IN IF activeRecord = <<>> THEN ui
       ELSE maybeShowRunningForRecord(ui, activeRecord[1], rr, rbs, ps)

\* a reconciliation against the history of the moment the request was issued,
\* when the page opened on an empty localStorage
loadHistoryFromServerAtIssue(runs) ==
    /\ listReq = "inflight"
    /\ LET st == [Store EXCEPT !.history = Reconcile(runs, <<>>)]
           rr == RunningRunIdsOf(runs)
           rbs == RunningBySessionOf(runs)
       IN /\ SetStore(st)
          /\ runningRunIds' = rr
          /\ runningBySession' = rbs
          /\ SetUi(restorePendingRun(Ui, st, rr, rbs, pendingSessions))
    /\ listReq' = "done"
    /\ lastOp' = OpArg("loadHistoryFromServer", NULL,
                       [i \in 1..Len(runs) |-> runs[i].id])
    /\ UNCHANGED <<pendingSessions, searchPending, actionPending, actionReq,
                   deleteReqs, synReqs, timeline, now, srvVars>>

\* loadHistoryFromServer(): the /runs/list response arrives
loadHistoryFromServer(runs) ==
    /\ listReq = "inflight"
    /\ LET st == [Store EXCEPT !.history = Reconcile(runs, history)]
           rr == RunningRunIdsOf(runs)
           rbs == RunningBySessionOf(runs)
       IN /\ SetStore(st)
          /\ runningRunIds' = rr
          /\ runningBySession' = rbs
          /\ SetUi(restorePendingRun(Ui, st, rr, rbs, pendingSessions))
    /\ listReq' = "done"
    /\ lastOp' = OpArg("loadHistoryFromServer", NULL,
                       [i \in 1..Len(runs) |-> runs[i].id])
    /\ UNCHANGED <<pendingSessions, searchPending, actionPending, actionReq,
                   deleteReqs, synReqs, timeline, now, srvVars>>

\* a failed run list that is not survived: the local history is given up and
\* the running sets are rebuilt from no runs
loadHistoryFromServerFailClearing ==
    /\ listReq = "inflight"
    /\ listReq' = "done"
    /\ LET st == [Store EXCEPT !.history = <<>>]
       IN /\ SetStore(st)
          /\ runningRunIds' = {}
          /\ runningBySession' = EmptyMap
          /\ SetUi(restorePendingRun(Ui, st, {}, EmptyMap, pendingSessions))
    /\ lastOp' = Op("loadHistoryFromServerFail", NULL)
    /\ UNCHANGED <<pendingSessions, searchPending, actionPending, actionReq,
                   deleteReqs, synReqs, timeline, now, srvVars>>

\* loadHistoryFromServer(): the request fails; the local history is kept
loadHistoryFromServerFail ==
    /\ listReq = "inflight"
    /\ listReq' = "done"
    /\ SetUi(restorePendingRun(Ui, Store, runningRunIds, runningBySession,
                               pendingSessions))
    /\ lastOp' = Op("loadHistoryFromServerFail", NULL)
    /\ UNCHANGED <<storeVars, pendingSessions, runningRunIds, runningBySession,
                   searchPending, actionPending, actionReq, deleteReqs, synReqs,
                   timeline, now, srvVars>>

\* -------------------------------------------------------------------- search
\* onSearch() with a query that fails validateQuery: an error, no request
onSearchInvalid ==
    /\ ~searchPending
    /\ timeline' = timeline \cup {ErrorItem}
    /\ lastOp' = Op("onSearchInvalid", NULL)
    /\ UNCHANGED <<storeVars, pendVars, reqVars, pollVars, now, srvVars>>

\* onSearch() up to `await api("/reference/search")`
onSearch ==
    /\ ~searchPending
    /\ activeHistoryId' = NULL
    /\ searchPending' = TRUE
    /\ lastOp' = Op("onSearch", NULL)
    /\ UNCHANGED <<history, persisted, nextId, pendVars, actionPending, actionReq,
                   listReq, deleteReqs, synReqs, timeline, pollVars, now, srvVars>>

\* onSearch() while a search is in flight: `if (state.searchPending) return`
onSearchWhilePending ==
    /\ searchPending
    /\ lastOp' = Op("onSearchWhilePending", NULL)
    /\ UNCHANGED <<storeVars, pendVars, reqVars, timeline, pollVars, now, srvVars>>

\* the search response: handleSearchResult(result), then setSearchPending(false);
\* the server issues a new session id when the search has matches
onSearchOk(matches, sid, ok) ==
    /\ searchPending
    /\ sid = IF Truthy(matches) THEN FreshSession ELSE NULL
    /\ LET result == [matches_count |-> matches, session_id |-> sid,
                     reference_options_count |-> RefOptionsOf(matches)]
       IN /\ \E st \in {handleSearchResult(Store, result, now, ok)} : SetStore(st)
          /\ timeline' = IF Truthy(matches) THEN timeline \cup {Item("card", sid)}
                         ELSE timeline
          /\ srvSessions' = srvSessions \cup ({sid} \ {NULL})
    /\ searchPending' = FALSE
    /\ lastOp' = OpArg("onSearchOk", sid, <<matches>>)
    /\ UNCHANGED <<pendVars, actionPending, actionReq, listReq, deleteReqs, synReqs,
                   pollVars, now, srvStatus, srvSession>>

\* a failed search whose flag is not reset
onSearchFailKeepsFlag ==
    /\ searchPending
    /\ timeline' = timeline \cup {ErrorItem}
    /\ lastOp' = Op("onSearchFail", NULL)
    /\ UNCHANGED <<storeVars, pendVars, reqVars, pollVars, now, srvVars>>

\* the search request fails: appendError, then setSearchPending(false)
onSearchFail ==
    /\ searchPending
    /\ searchPending' = FALSE
    /\ timeline' = timeline \cup {ErrorItem}
    /\ lastOp' = Op("onSearchFail", NULL)
    /\ UNCHANGED <<storeVars, pendVars, actionPending, actionReq, listReq,
                   deleteReqs, synReqs, pollVars, now, srvVars>>

\* ------------------------------------------------- choose reference / analyze
\* chooseReference(btn) up to its await; mode is "pipeline" or "choose"
chooseReference(sessionId, mode) ==
    /\ Item("card", sessionId) \in timeline
    /\ ~actionPending
    /\ actionPending' = TRUE
    /\ actionReq' = [sessionId |-> sessionId, mode |-> mode]
    /\ pendingSessions' = IF mode = "pipeline" /\ Truthy(sessionId)
                          THEN pendingSessions \cup {sessionId} ELSE pendingSessions
    /\ lastOp' = Op("chooseReference", sessionId)
    /\ UNCHANGED <<storeVars, pendingRunId, pendingMessage, runningRunIds,
                   runningBySession, searchPending, listReq, deleteReqs, synReqs,
                   timeline, pollVars, now, srvVars>>

\* chooseReference(btn) while a choose / analyze request is in flight:
\* `if (state.actionPending) return`
chooseReferenceWhilePending(sessionId) ==
    /\ Item("card", sessionId) \in timeline
    /\ actionPending
    /\ lastOp' = Op("chooseReferenceWhilePending", sessionId)
    /\ UNCHANGED <<storeVars, pendVars, reqVars, timeline, pollVars, now, srvVars>>

\* the run ids a choose/analyze response for a session may carry: none, or a
\* run the server holds for that session
ResponseRunIds(sessionId, statuses) ==
    {UNDEF} \cup {r \in Runs : srvSession[r] = sessionId /\ srvStatus[r] \in statuses}

\* the body of a /reference/choose response
ChooseResult(sessionId, runId) ==
    [session_id |-> sessionId,
     run_id |-> runId,
     saved_json_path |-> "json:" \o sessionId,
     selected_reference_drug |-> "drug:" \o sessionId]
\* the body of a /pipeline/analyze response
PipelineResult(sessionId, runId) ==
    [selection |-> [run_id |-> runId,
                    session_id |-> sessionId,
                    saved_json_path |-> "json:" \o sessionId,
                    selected_reference_drug |-> "drug:" \o sessionId],
     router |-> [analysis_text |-> "text:" \o sessionId]]

\* the /pipeline/analyze response arrives
chooseReferencePipelineOk(runId, ok) ==
    /\ actionPending /\ actionReq.mode = "pipeline"
    /\ runId \in ResponseRunIds(actionReq.sessionId, {"done"})
    /\ \E sessionId \in {actionReq.sessionId} :
       \E st \in {updateHistoryFromPipeline(Store, PipelineResult(sessionId, runId),
                                            now, ok)} :
       \E activeRecord \in {getActiveRecord(st)} :
       LET shown == activeRecord # <<>> /\ activeRecord[1].sessionId = sessionId
       IN /\ SetStore(st)
          /\ pendingSessions' = pendingSessions \ {sessionId}
          /\ pendingMessage' = IF shown THEN FALSE ELSE pendingMessage
          /\ pendingRunId' = IF shown THEN NULL ELSE pendingRunId
          /\ timeline' = IF shown THEN timeline \cup RunItems(runId, TRUE) ELSE timeline
          /\ synReqs' = IF shown THEN synReqs \cup HydrateReqs(runId) ELSE synReqs
    /\ actionPending' = FALSE
    /\ actionReq' = NoReq
    /\ lastOp' = OpArg("chooseReferencePipelineOk", actionReq.sessionId, <<runId>>)
    /\ UNCHANGED <<runningRunIds, runningBySession, searchPending, listReq,
                   deleteReqs, pollVars, now, srvVars>>

\* the /reference/choose response arrives
chooseReferenceChooseOk(runId, ok) ==
    /\ actionPending /\ actionReq.mode = "choose"
    /\ runId \in ResponseRunIds(actionReq.sessionId, {"running", "done"})
    /\ \E sessionId \in {actionReq.sessionId} :
       \E st \in {updateHistoryFromChoose(Store, ChooseResult(sessionId, runId), now, ok)} :
       \E activeRecord \in {getActiveRecord(st)} :
       LET shown == activeRecord # <<>> /\ activeRecord[1].sessionId = sessionId
       IN /\ SetStore(st)
          /\ timeline' = IF shown THEN timeline \cup RunItems(runId, FALSE) ELSE timeline
    /\ actionPending' = FALSE
    /\ actionReq' = NoReq
    /\ lastOp' = OpArg("chooseReferenceChooseOk", actionReq.sessionId, <<runId>>)
    /\ UNCHANGED <<pendVars, searchPending, listReq, deleteReqs, synReqs, pollVars,
                   now, srvVars>>

\* a failed choose / analyze request that leaves its session marked
chooseReferenceFailKeepsSession ==
    /\ actionPending
    /\ \E sessionId \in {actionReq.sessionId} :
       \E activeRecord \in {getActiveRecord(Store)} :
       LET shown == activeRecord # <<>> /\ activeRecord[1].sessionId = sessionId
       IN timeline' = IF shown THEN timeline \cup {ErrorItem} ELSE timeline
    /\ actionPending' = FALSE
    /\ actionReq' = NoReq
    /\ lastOp' = Op("chooseReferenceFail", actionReq.sessionId)
    /\ UNCHANGED <<storeVars, pendVars, searchPending, listReq, deleteReqs, synReqs,
                   pollVars, now, srvVars>>

\* the choose/analyze request fails
chooseReferenceFail ==
    /\ actionPending
    /\ \E sessionId \in {actionReq.sessionId} :
       \E activeRecord \in {getActiveRecord(Store)} :
       LET shown == activeRecord # <<>> /\ activeRecord[1].sessionId = sessionId
       IN /\ pendingSessions' = IF actionReq.mode = "pipeline" /\ Truthy(sessionId)
                                THEN pendingSessions \ {sessionId} ELSE pendingSessions
          /\ timeline' = IF shown THEN timeline \cup {ErrorItem} ELSE timeline
    /\ actionPending' = FALSE
    /\ actionReq' = NoReq
    /\ lastOp' = Op("chooseReferenceFail", actionReq.sessionId)
    /\ UNCHANGED <<storeVars, pendingRunId, pendingMessage, runningRunIds,
                   runningBySession, searchPending, listReq, deleteReqs, synReqs,
                   pollVars, now, srvVars>>

\* ------------------------------------------------------------ history drawer
\* renderHistoryConversation(record): the timeline is rebuilt from the record,
\* the pending key is reset, then maybeShowRunningForRecord(record)
renderHistoryItems(record) ==
    IF Truthy(record.selectedReferenceDrug) THEN RunItems(record.runId, TRUE) ELSE {}
renderHistoryHydrate(record) ==
    IF Truthy(record.selectedReferenceDrug) THEN HydrateReqs(record.runId) ELSE {}

\* onHistoryClick on the i-th item of the drawer (not on its delete button)
onHistoryClick(i) ==
    /\ i \in 1..Len(history)
    /\ LET record == history[i]
           reset == [Ui EXCEPT !.pendingRunId = NULL, !.pendingMessage = FALSE]
       IN /\ activeHistoryId' = record.id
          /\ timeline' = renderHistoryItems(record)
          /\ synReqs' = synReqs \cup renderHistoryHydrate(record)
          /\ SetUi(maybeShowRunningForRecord(reset, record, runningRunIds,
                                             runningBySession, pendingSessions))
    /\ lastOp' = Op("onHistoryClick", history[i].id)
    /\ UNCHANGED <<history, persisted, nextId, pendingSessions, runningRunIds,
                   runningBySession, searchPending, actionPending, actionReq,
                   listReq, deleteReqs, now, srvVars>>

newChat ==
    /\ activeHistoryId' = NULL
    /\ timeline' = {}
    /\ pendingMessage' = FALSE
    /\ pendingRunId' = NULL
    /\ lastOp' = Op("newChat", NULL)
    /\ UNCHANGED <<history, persisted, nextId, pendingSessions, runningRunIds,
                   runningBySession, reqVars, pollVars, now, srvVars>>

\* -------------------------------------------------------------------- delete
DelReq(runId, historyId) == [runId |-> runId, historyId |-> historyId]

\* deleteHistoryItem(btn) up to its await: the drawer's delete button of item i
deleteHistoryItem(i) ==
    /\ i \in 1..Len(history)
    /\ Truthy(history[i].runId)
    /\ deleteReqs' = deleteReqs \cup {DelReq(history[i].runId, history[i].id)}
    /\ lastOp' = Op("deleteHistoryItem", history[i].runId)
    /\ UNCHANGED <<storeVars, pendVars, searchPending, actionPending, actionReq,
                   listReq, synReqs, timeline, pollVars, now, srvVars>>

\* deleteRun(btn) up to its await: a message's delete-run button
deleteRun(runId) ==
    /\ Item("del", runId) \in timeline
    /\ deleteReqs' = deleteReqs \cup {DelReq(runId, NULL)}
    /\ lastOp' = Op("deleteRun", runId)
    /\ UNCHANGED <<storeVars, pendVars, searchPending, actionPending, actionReq,
                   listReq, synReqs, timeline, pollVars, now, srvVars>>

\* after `await api("/runs/delete")` in deleteHistoryItem
deleteHistoryItemDone(st, req, ok) ==
    LET Hit(h) == h.id = req.historyId
        idx == FindIndex(st.history, Hit)
        cut == IF idx = 0 THEN st ELSE [st EXCEPT !.history = RemoveAt(@, idx)]
    IN saveHistory(RemoveActiveIfGone(cut), ok)

\* the /runs/delete response arrives: the server has deleted the run
deleteOk(req, ok) ==
    /\ req \in deleteReqs
    /\ srvStatus[req.runId] \in {"running", "done"}
    /\ srvStatus' = [srvStatus EXCEPT ![req.runId] = "deleted"]
    /\ deleteReqs' = deleteReqs \ {req}
    /\ IF Truthy(req.historyId)
       THEN /\ SetStore(deleteHistoryItemDone(Store, req, ok))
            /\ timeline' = timeline
       ELSE /\ SetStore(removeHistoryByRunId(Store, req.runId, ok))
            /\ timeline' = timeline \ {Item("del", req.runId), Item("syn", req.runId)}
    /\ lastOp' = Op("deleteOk", req.runId)
    /\ UNCHANGED <<pendVars, searchPending, actionPending, actionReq, listReq,
                   synReqs, pollVars, now, srvSession, srvSessions>>

\* the /runs/delete request fails: appendError, the store is left alone
deleteFail(req) ==
    /\ req \in deleteReqs
    /\ deleteReqs' = deleteReqs \ {req}
    /\ timeline' = timeline \cup {ErrorItem}
    /\ lastOp' = Op("deleteFail", req.runId)
    /\ UNCHANGED <<storeVars, pendVars, searchPending, actionPending, actionReq,
                   listReq, synReqs, pollVars, now, srvVars>>

\* ------------------------------------------------------------------ synopsis
\* buildSynopsis(btn) up to its await
buildSynopsis(runId) ==
    /\ Item("syn", runId) \in timeline
    /\ synReqs' = synReqs \cup {SynReq("build", runId)}
    /\ lastOp' = Op("buildSynopsis", runId)
    /\ UNCHANGED <<storeVars, pendVars, searchPending, actionPending, actionReq,
                   listReq, deleteReqs, timeline, pollVars, now, srvVars>>

\* the synopsis objects a response may carry
Synopses(runId) ==
    {[status |-> "running", download_url |-> NULL],
     [status |-> "done", download_url |-> "docx:" \o runId]}

\* the /synopsis/build response arrives
buildSynopsisOk(runId, ok) ==
    /\ SynReq("build", runId) \in synReqs
    /\ synReqs' = synReqs \ {SynReq("build", runId)}
    /\ SetStore(updateHistoryWithSynopsis(Store, runId,
            [status |-> "done", download_url |-> "docx:" \o runId], ok))
    /\ lastOp' = Op("buildSynopsisOk", runId)
    /\ UNCHANGED <<pendVars, searchPending, actionPending, actionReq, listReq,
                   deleteReqs, timeline, pollVars, now, srvVars>>

buildSynopsisFail(runId) ==
    /\ SynReq("build", runId) \in synReqs
    /\ synReqs' = synReqs \ {SynReq("build", runId)}
    /\ timeline' = timeline \cup {ErrorItem}
    /\ lastOp' = Op("buildSynopsisFail", runId)
    /\ UNCHANGED <<storeVars, pendVars, searchPending, actionPending, actionReq,
                   listReq, deleteReqs, pollVars, now, srvVars>>

\* hydrateSynopsisSection: the /synopsis/get response carries a synopsis
hydrateSynopsisSection(runId, synopsis, ok) ==
    /\ SynReq("hydrate", runId) \in synReqs
    /\ synReqs' = synReqs \ {SynReq("hydrate", runId)}
    /\ SetStore(updateHistoryWithSynopsis(Store, runId, synopsis, ok))
    /\ lastOp' = Op("hydrateSynopsisSection", runId)
    /\ UNCHANGED <<pendVars, searchPending, actionPending, actionReq, listReq,
                   deleteReqs, timeline, pollVars, now, srvVars>>

\* hydrateSynopsisSection: no synopsis in the response, or the request fails
hydrateSynopsisNone(runId) ==
    /\ SynReq("hydrate", runId) \in synReqs
    /\ synReqs' = synReqs \ {SynReq("hydrate", runId)}
    /\ lastOp' = Op("hydrateSynopsisNone", runId)
    /\ UNCHANGED <<storeVars, pendVars, searchPending, actionPending, actionReq,
                   listReq, deleteReqs, timeline, pollVars, now, srvVars>>

\* -------------------------------------------------------------------- poller
\* a chain that gives up instead of scheduling its retry
GiveUp(p, runId) == [p EXCEPT ![runId].f = @ - 1]
\* setTimeout(() => pollRun(runId), RUN_POLL_MS): the chain waits for its timer
Retry(p, runId) == [p EXCEPT ![runId].f = @ - 1, ![runId].w = @ + 1]
\* a chain that schedules a retry although the run is done
RetryWhenDone(p, runId) == Retry(p, runId)
\* pollRun returns after handling `done`: the chain ends
Finish(p, runId) == [p EXCEPT ![runId].f = @ - 1]
\* the retry timer of a chain fires: setTimeout(() => pollRun(runId), RUN_POLL_MS)
pollRunTimer(runId) ==
    /\ polls[runId].w > 0
    /\ SetPolls([polls EXCEPT ![runId].w = @ - 1, ![runId].f = @ + 1])
    /\ lastOp' = Op("pollRunTimer", runId)
    /\ UNCHANGED <<storeVars, pendVars, reqVars, timeline, now, srvVars>>

\* pollRun: the response says the run is not done (or carries no run)
pollRunNotDone(runId) ==
    /\ polls[runId].f > 0
    /\ srvStatus[runId] # "done"
    /\ SetPollsSeen(Retry(polls, runId), Seen(runId, srvStatus[runId]))
    /\ lastOp' = Op("pollRunNotDone", runId)
    /\ UNCHANGED <<storeVars, pendVars, reqVars, timeline, now, srvVars>>

\* a poller that gives up on a failed fetch instead of retrying
pollRunErrorGivesUp(runId) ==
    /\ polls[runId].f > 0
    /\ SetPolls([polls EXCEPT ![runId].f = @ - 1])
    /\ lastOp' = Op("pollRunError", runId)
    /\ UNCHANGED <<storeVars, pendVars, reqVars, timeline, now, srvVars>>

\* pollRun: the fetch fails (transport error, timeout, error response)
pollRunError(runId) ==
    /\ polls[runId].f > 0
    /\ SetPolls(Retry(polls, runId))
    /\ lastOp' = Op("pollRunError", runId)
    /\ UNCHANGED <<storeVars, pendVars, reqVars, timeline, now, srvVars>>

\* a completion that forgets to clear the session's running entry
KeepRunningBySession(rbs, run) == rbs

\* runningBySession.delete(run.session_id) when it maps to runId
ClearRunningBySession(rbs, run) ==
    IF Truthy(run.session_id) /\ run.session_id \in DOMAIN rbs
       /\ rbs[run.session_id] = run.id
    THEN [s \in DOMAIN rbs \ {run.session_id} |-> rbs[s]]
    ELSE rbs

\* pollRun: the response says the run is done
pollRunDone(runId, ok) ==
    /\ polls[runId].f > 0
    /\ srvStatus[runId] = "done"
    /\ \E run \in {SrvRun(runId)} :
       \E ensured \in {ensureHistoryFromRun(Store, run, ok)} :
       \E st \in {updateHistoryFromPipeline(ensured, buildPipelineResultFromRun(run),
                                            now, ok)} :
       \E activeRecord \in {getActiveRecord(st)} :
       LET shown == activeRecord # <<>> /\ isRunRelatedToRecord(run, activeRecord[1])
       IN /\ pendingMessage' = FALSE
          /\ pendingRunId' = NULL
          /\ runningRunIds' = runningRunIds \ {runId}
          /\ runningBySession' = ClearRunningBySession(runningBySession, run)
          /\ SetStore(st)
          /\ timeline' = IF shown THEN timeline \cup RunItems(runId, TRUE) ELSE timeline
          /\ synReqs' = IF shown THEN synReqs \cup HydrateReqs(runId) ELSE synReqs
    /\ SetPollsSeen(Finish(polls, runId), Seen(runId, "done"))
    /\ lastOp' = Op("pollRunDone", runId)
    /\ UNCHANGED <<pendingSessions, searchPending, actionPending, actionReq, listReq,
                   deleteReqs, now, srvVars>>

\* -------------------------------------------------------------------- reload
\* The page is reloaded: a new `state`, loadHistory() from localStorage, init()
\* up to `await loadHistoryFromServer()`; the old page's requests and timers die.
Reload ==
    /\ history' = persisted
    /\ activeHistoryId' = NULL
    /\ searchPending' = FALSE
    /\ actionPending' = FALSE
    /\ actionReq' = NoReq
    /\ pendingRunId' = NULL
    /\ pendingMessage' = FALSE
    /\ pendingSessions' = {}
    /\ runningRunIds' = {}
    /\ runningBySession' = EmptyMap
    /\ timeline' = {}
    /\ listReq' = "inflight"
    /\ SetPolls(NoPolls)
    /\ deleteReqs' = {}
    /\ synReqs' = {}
    /\ lastOp' = Op("Reload", NULL)
    /\ UNCHANGED <<persisted, nextId, now, srvVars>>

\* ---------------------------------------------------------------------- Next
MatchCounts == {"0", "12"}
Modes == {"pipeline", "choose"}

\* The whole client with its server.
Next ==
    \/ Tick
    \/ \E s \in SessionVals : SrvCreateRun(s)
    \/ \E r \in Runs : SrvFinishRun(r)
    \/ \E runs \in RunLists : loadHistoryFromServer(runs)
    \/ loadHistoryFromServerFail
    \/ onSearchInvalid
    \/ onSearch
    \/ onSearchWhilePending
    \/ \E m \in MatchCounts, sid \in SessionVals, ok \in SaveOutcomes :
            onSearchOk(m, sid, ok) /\ nextId' <= MaxIds
    \/ onSearchFail
    \/ \E s \in Sessions, mode \in Modes : chooseReference(s, mode)
    \/ \E s \in Sessions : chooseReferenceWhilePending(s)
    \/ \E r \in Runs \cup {UNDEF}, ok \in SaveOutcomes : chooseReferencePipelineOk(r, ok)
    \/ \E r \in Runs \cup {UNDEF}, ok \in SaveOutcomes : chooseReferenceChooseOk(r, ok)
    \/ chooseReferenceFail
    \/ \E i \in 1..Len(history) : onHistoryClick(i)
    \/ newChat
    \/ \E i \in 1..Len(history) : deleteHistoryItem(i)
    \/ \E r \in Runs : deleteRun(r)
    \/ \E req \in deleteReqs, ok \in SaveOutcomes : deleteOk(req, ok)
    \/ \E req \in deleteReqs : deleteFail(req)
    \/ \E r \in Runs : buildSynopsis(r)
    \/ \E r \in Runs, ok \in SaveOutcomes : buildSynopsisOk(r, ok)
    \/ \E r \in Runs : buildSynopsisFail(r)
    \/ \E r \in Runs, ok \in SaveOutcomes :
            \E syn \in Synopses(r) : hydrateSynopsisSection(r, syn, ok)
    \/ \E r \in Runs : hydrateSynopsisNone(r)
    \/ \E r \in Runs : pollRunTimer(r)
    \/ \E r \in Runs : pollRunNotDone(r)
    \/ \E r \in Runs : pollRunError(r)
    \/ \E r \in Runs, ok \in SaveOutcomes : pollRunDone(r, ok) /\ nextId' <= MaxIds
    \/ Reload

Spec == Init /\ [][Next]_vars

\* ----------------------------------------------------------------- SpecTrack
\* The run-tracking part of the system: the server's runs, reconciliation at
\* startup, the history drawer (select, new chat, delete) and the pollers.
NextTrack ==
    \/ \E s \in SessionVals : SrvCreateRun(s)
    \/ \E r \in Runs : SrvFinishRun(r)
    \/ \E runs \in RunLists : loadHistoryFromServer(runs)
    \/ loadHistoryFromServerFail
    \/ \E i \in 1..Len(history) : onHistoryClick(i)
    \/ newChat
    \/ \E i \in 1..Len(history) : deleteHistoryItem(i)
    \/ \E req \in deleteReqs : deleteOk(req, TRUE)
    \/ \E req \in deleteReqs : deleteFail(req)
    \/ \E r \in Runs : pollRunTimer(r)
    \/ \E r \in Runs : pollRunNotDone(r)
    \/ \E r \in Runs : pollRunError(r)
    \/ \E r \in Runs : pollRunDone(r, TRUE) /\ nextId' <= MaxIds

SpecTrack == Init /\ [][NextTrack]_vars

TypeOK ==
    /\ nextId \in 0..MaxIds
    /\ \A i \in 1..Len(history) : DOMAIN history[i] = Fields
    /\ pendingSessions \subseteq Sessions

\* ------------------------------------------------------------- SpecReconcile
\* reconcile(R, L) on its own: the page opens on a localStorage that holds the
\* records L of earlier visits while the server holds the runs R.
MaxLocal == 2                   \* records in localStorage when the page opens

\* a record an earlier visit left: created by a search (no run), patched with a
\* run id by choose/analyze, or materialized from a run
LocalRecord(n, s, r) ==
    [id |-> "h" \o ToString(n),
     sessionId |-> s,
     updatedAt |-> 0,
     matchesCount |-> IF Truthy(s) THEN "12" ELSE NULL,
     referenceOptionsCount |-> IF Truthy(s) THEN RefOptionsOf("12") ELSE NULL,
     selectedReferenceDrug |-> IF Truthy(r) THEN DrugOf(r) ELSE NULL,
     selectionJsonPath |-> IF Truthy(r) THEN JsonOf(r) ELSE NULL,
     analysisText |-> NULL,
     runId |-> r,
     synopsisDocxUrl |-> UNDEF,
     synopsisStatus |-> UNDEF]

\* no two records share a non-null sessionId, nor a non-null runId
NoSharedKeys(h) ==
    \A i, j \in 1..Len(h) :
        i # j => /\ ~(Truthy(h[i].sessionId) /\ h[i].sessionId = h[j].sessionId)
                 /\ ~(Truthy(h[i].runId) /\ h[i].runId = h[j].runId)

LocalHistories ==
    LET keys == {k \in SessionVals \X (Runs \cup {NULL}) : Truthy(k[1]) \/ Truthy(k[2])}
        seqs == UNION {[1..n -> keys] : n \in 0..MaxLocal}
    IN {h \in {[i \in 1..Len(q) |-> LocalRecord(i, q[i][1], q[i][2])] : q \in seqs} :
            NoSharedKeys(h)}

\* the runs the server may hold: ids are assigned in order, each run belongs to
\* a session or to none
ServerStates ==
    {c \in [status : [Runs -> {"none", "running", "done"}],
            session : [Runs -> SessionVals]] :
        /\ (c.status["r2"] # "none" => c.status["r1"] # "none")
        /\ \A r \in Runs : c.status[r] = "none" => c.session[r] = NULL}

InitReconcile ==
    /\ \E h \in LocalHistories :
        /\ history = h
        /\ persisted = h
        /\ nextId = Len(h)
    /\ \E c \in ServerStates :
        /\ srvStatus = c.status
        /\ srvSession = c.session
        /\ srvSessions = Sessions
    /\ InitPage
    /\ InitObserver({})

NextReconcile ==
    \/ \E runs \in RunLists : loadHistoryFromServer(runs)
    \/ loadHistoryFromServerFail

SpecReconcile == InitReconcile /\ [][NextReconcile]_vars

\* ---------------------------------------------------------------- SpecDelete
\* Deleting while the page opens: the drawer shows the records of earlier
\* visits, whose delete buttons work while the run list is still awaited.
NextDelete ==
    \/ \E runs \in RunLists : loadHistoryFromServer(runs)
    \/ loadHistoryFromServerFail
    \/ \E i \in 1..Len(history) : deleteHistoryItem(i)
    \/ \E req \in deleteReqs : deleteOk(req, TRUE)
    \/ \E req \in deleteReqs : deleteFail(req)

SpecDelete == InitReconcile /\ [][NextDelete]_vars

\* ------------------------------------------------------------------ SpecOpen
\* The page has just opened: the user searches and chooses while the run list
\* of init() is still awaited.
NextOpen ==
    \/ \E s \in SessionVals : SrvCreateRun(s)
    \/ \E runs \in RunLists : loadHistoryFromServer(runs)
    \/ loadHistoryFromServerFail
    \/ onSearch
    \/ \E sid \in Sessions : onSearchOk("12", sid, TRUE) /\ nextId' <= MaxIds
    \/ \E s \in Sessions, mode \in Modes : chooseReference(s, mode)
    \/ \E r \in Runs \cup {UNDEF} : chooseReferencePipelineOk(r, TRUE)
    \/ \E r \in Runs \cup {UNDEF} : chooseReferenceChooseOk(r, TRUE)

SpecOpen == Init /\ [][NextOpen]_vars

\* -------------------------------------------------------------- SpecRequests
\* The two guarded requests of the composer and of the option card. api() arms
\* an abort timer for every request, so every request ends: with a response or
\* with a failure.
SearchResponse ==
    \/ \E m \in MatchCounts, sid \in SessionVals :
            onSearchOk(m, sid, TRUE) /\ nextId' <= MaxIds
    \/ onSearchFail
ActionResponse ==
    \/ \E r \in Runs \cup {UNDEF} : chooseReferencePipelineOk(r, TRUE)
    \/ \E r \in Runs \cup {UNDEF} : chooseReferenceChooseOk(r, TRUE)
    \/ chooseReferenceFail
NextRequests ==
    \/ onSearch
    \/ onSearchWhilePending
    \/ SearchResponse
    \/ \E s \in Sessions, mode \in Modes : chooseReference(s, mode)
    \/ \E s \in Sessions : chooseReferenceWhilePending(s)
    \/ ActionResponse

SpecRequests ==
    /\ Init /\ [][NextRequests]_vars
    /\ WF_vars(SearchResponse)
    /\ WF_vars(ActionResponse)

\* ------------------------------------------------------------------- SpecCap
\* Searches only, enough of them to fill the store past its cap.
MaxInserts == 101               \* records the searches may insert

NextCap ==
    \/ onSearch
    \/ \E m \in MatchCounts, sid \in {NULL, FreshSession} :
            onSearchOk(m, sid, TRUE) /\ nextId' <= MaxInserts
    \/ onSearchFail

SpecCap == Init /\ [][NextCap]_vars

\* ------------------------------------------------------------------ SpecPoll
\* One poller per run, every status fetch answered: the observer counts the
\* fetches of each run and keeps the statuses the responses carried.
OneChainPerRun(p) == \A r \in Runs : p[r].f + p[r].w <= 1

NextPoll ==
    \/ \E s \in SessionVals : SrvCreateRun(s)
    \/ \E r \in Runs : SrvFinishRun(r)
    \/ \E runs \in RunLists : loadHistoryFromServer(runs)
    \/ \E i \in 1..Len(history) : onHistoryClick(i) /\ OneChainPerRun(polls')
    \/ newChat
    \/ \E r \in Runs : pollRunTimer(r)
    \/ \E r \in Runs : pollRunNotDone(r)
    \/ \E r \in Runs : pollRunDone(r, TRUE) /\ nextId' <= MaxIds

InitPoll == InitPage /\ InitEmpty /\ InitObserver(Runs)

SpecPoll == InitPoll /\ [][NextPoll]_vars

\* ------------------------------------------------------------------ SpecLive
\* The pollers under fair scheduling: a timer that is due fires, the server
\* finishes the runs it started, and a fetch of a finished run is eventually
\* answered rather than failing for ever.
NextLive ==
    \/ \E s \in SessionVals : SrvCreateRun(s)
    \/ \E r \in Runs : SrvFinishRun(r)
    \/ \E runs \in RunLists : loadHistoryFromServer(runs)
    \/ \E i \in 1..Len(history) : onHistoryClick(i)
    \/ \E r \in Runs : pollRunTimer(r)
    \/ \E r \in Runs : pollRunNotDone(r)
    \/ \E r \in Runs : pollRunError(r)
    \/ \E r \in Runs : pollRunDone(r, TRUE)

SpecLive ==
    /\ Init /\ [][NextLive]_vars
    /\ \A r \in Runs :
        /\ WF_vars(pollRunTimer(r))
        /\ WF_vars(SrvFinishRun(r))
        /\ SF_vars(pollRunDone(r, TRUE))

\* -------------------------------------------------------------- SpecPipeline
\* The pipeline of one conversation: search, choose reference / analyze,
\* build synopsis.
NextPipeline ==
    \/ \E s \in SessionVals : SrvCreateRun(s)
    \/ \E r \in Runs : SrvFinishRun(r)
    \/ onSearch
    \/ \E m \in MatchCounts, sid \in SessionVals :
            onSearchOk(m, sid, TRUE) /\ nextId' <= MaxIds
    \/ \E s \in Sessions, mode \in Modes : chooseReference(s, mode)
    \/ \E r \in Runs \cup {UNDEF} : chooseReferencePipelineOk(r, TRUE)
    \/ \E r \in Runs \cup {UNDEF} : chooseReferenceChooseOk(r, TRUE)
    \/ chooseReferenceFail
    \/ \E r \in Runs : buildSynopsis(r)
    \/ \E r \in Runs : buildSynopsisOk(r, TRUE)

SpecPipeline == Init /\ [][NextPipeline]_vars

\* ------------------------------------------------------------------ SpecEdit
\* A conversation whose record may be deleted while its requests are in
\* flight: search, choose reference / analyze, build synopsis, delete.
NextEdit ==
    \/ \E s \in Sessions : SrvCreateRun(s)
    \/ \E r \in Runs : SrvFinishRun(r)
    \/ onSearch
    \/ \E sid \in Sessions : onSearchOk("12", sid, TRUE) /\ nextId' <= MaxIds
    \/ \E s \in Sessions, mode \in Modes : chooseReference(s, mode)
    \/ \E r \in Runs \cup {UNDEF} : chooseReferencePipelineOk(r, TRUE)
    \/ \E r \in Runs \cup {UNDEF} : chooseReferenceChooseOk(r, TRUE)
    \/ \E i \in 1..Len(history) : deleteHistoryItem(i)
    \/ \E req \in deleteReqs : deleteOk(req, TRUE)
    \/ \E r \in Runs : buildSynopsis(r)
    \/ \E r \in Runs : buildSynopsisOk(r, TRUE)

SpecEdit == Init /\ [][NextEdit]_vars

\* -------------------------------------------------------------------- claims

\* C1: in every reachable state of the record store no two records share the
\* same non-null sessionId and no two records share the same non-null runId.
C1_UniqueKeys == NoSharedKeys(history)

\* C2: the history produced by reconciliation (loadHistoryFromServer) never
\* holds two records sharing a non-null runId, nor two sharing a non-null
\* sessionId, whatever the server's run list and the local records.
C2_ReconcileDedup ==
    lastOp.op = "loadHistoryFromServer" => NoSharedKeys(history)

\* C4: at most one polling chain is ever active for a given run id.
C4_OneChainPerRun ==
    \A r \in Runs : polls[r].f + polls[r].w <= 1

\* C6: once the record of run r has been removed by a delete action, the poll
\* chain of r issues no further status fetch.
Deleted(r) ==
    /\ srvStatus[r] = "deleted"
    /\ \A i \in 1..Len(history) : history[i].runId # r
C6_NoFetchAfterDelete ==
    [][\A r \in Runs : Deleted(r) => lastOp' # Op("pollRunTimer", r)]_vars

\* C7: a failed status fetch is handled like a not-yet-done response: the chain
\* schedules exactly one retry, the store, the pending key, the running sets
\* and the timeline stay as they were (no error is mounted), and a scheduled
\* retry can always fire (no attempt limit).
PollFailureStep(r) ==
    /\ polls'[r].f = polls[r].f - 1
    /\ polls'[r].w = polls[r].w + 1
    /\ \A q \in Runs \ {r} : polls'[q] = polls[q]
    /\ UNCHANGED <<storeVars, pendVars, reqVars, timeline>>
C7_PollFailureRetries ==
    /\ [][\A r \in Runs : lastOp' = Op("pollRunError", r) => PollFailureStep(r)]_vars
    /\ [](\A r \in Runs : polls[r].w > 0 => ENABLED pollRunTimer(r))
C7_Witness ==
    /\ lastOp.op = "pollRunError"
    /\ polls[lastOp.key].w > 0
    /\ Truthy(pendingRunId)
    /\ history # <<>>

\* C9: when a poll observes done for run r, r leaves runningRunIds,
\* runningBySession no longer maps r's session to r, the pending key is not r,
\* the pending indicator is off, and the chain schedules no further fetch.
PollDoneStep(r) ==
    /\ r \notin runningRunIds'
    /\ ~(/\ srvSession[r] \in DOMAIN runningBySession'
         /\ runningBySession'[srvSession[r]] = r)
    /\ pendingRunId' # r
    /\ pendingMessage' = FALSE
    /\ polls'[r].f = polls[r].f - 1
    /\ polls'[r].w = polls[r].w
C9_DoneClearsPending ==
    [][\A r \in Runs : lastOp' = Op("pollRunDone", r) => PollDoneStep(r)]_vars
C9_Witness ==
    /\ lastOp.op = "pollRunDone"
    /\ Truthy(srvSession[lastOp.key])
    /\ polls[lastOp.key].f + polls[lastOp.key].w = 0
    /\ \E i \in 1..Len(history) : history[i].runId = lastOp.key

\* C3: the record store holds at most 100 records in every reachable state.
C3_StoreCapped == Len(history) <= HistoryCap

\* C5: a run whose three successive status fetches answer running, running,
\* done is fetched exactly three times; then its chain is gone (no fourth
\* fetch, no timer), and the patch of the completion put the done payload of
\* the run on the record it promoted.
RunningRunningDone == <<"running", "running", "done">>
C8_PollReachesDone ==
    \A r \in Runs :
        (polls[r].f + polls[r].w > 0)
            ~> (/\ lastOp = Op("pollRunDone", r)
                /\ \E i \in 1..Len(history) : history[i].runId = r)
C8_Witness ==
    /\ lastOp = Op("pollRunDone", "r2")
    /\ \E i \in 1..Len(history) : history[i].runId = "r2"
    /\ polls["r2"].f + polls["r2"].w = 0

\* C10: a patch, by session or by run, changes only the fields it names: the
\* other fields of the matched record keep their values and every other record
\* is unchanged; a synopsis patch touches the synopsis fields only.
ChooseNames == {"updatedAt", "selectedReferenceDrug", "selectionJsonPath", "runId"}
PipelineNames == ChooseNames \cup {"analysisText"}
SynopsisNames == {"synopsisDocxUrl", "synopsisStatus"}
\* the matched record i ends at position pos; nothing else differs
PatchFrame(named, promoted) ==
    \/ history' = history
    \/ \E i \in 1..Len(history) :
        LET pos == IF promoted THEN 1 ELSE i
        IN /\ Len(history') = Len(history)
           /\ RemoveAt(history', pos) = RemoveAt(history, i)
           /\ DOMAIN history'[pos] = Fields
           /\ \A f \in Fields \ named : history'[pos][f] = history[i][f]
C10_PatchKeepsOtherFields ==
    [][/\ lastOp'.op = "chooseReferenceChooseOk" => PatchFrame(ChooseNames, TRUE)
       /\ lastOp'.op = "chooseReferencePipelineOk" => PatchFrame(PipelineNames, TRUE)
       /\ lastOp'.op = "buildSynopsisOk" => PatchFrame(SynopsisNames, FALSE)]_vars
C10_Witness ==
    /\ lastOp.op = "buildSynopsisOk"
    /\ \E i \in 1..Len(history) :
        /\ history[i].runId = lastOp.key
        /\ history[i].synopsisStatus = "done"
        /\ Truthy(history[i].analysisText)
        /\ Truthy(history[i].matchesCount)

\* C11: applying the same (sessionId, fields) patch twice in a row yields the
\* same store as applying it once: same records apart from updatedAt, same
\* order, same active pointer.  Checked on the step of a choose / analyze
\* response: the patch it applied is applied again to the store it left, at
\* the same and at a later time.
StripTime(st) ==
    [st EXCEPT !.history = [i \in 1..Len(@) |-> [@[i] EXCEPT !.updatedAt = 0]],
               !.persisted = [i \in 1..Len(@) |-> [@[i] EXCEPT !.updatedAt = 0]]]
ChooseTwice(r, t) ==
    LET result == ChooseResult(actionReq.sessionId, r)
        once == updateHistoryFromChoose(Store, result, now, TRUE)
        twice == updateHistoryFromChoose(once, result, t, TRUE)
    IN (lastOp'.op = "chooseReferenceChooseOk" /\ Store' = once)
        => /\ StripTime(twice) = StripTime(once)
           /\ t = now => twice = once
PipelineTwice(r, t) ==
    LET result == PipelineResult(actionReq.sessionId, r)
        once == updateHistoryFromPipeline(Store, result, now, TRUE)
        twice == updateHistoryFromPipeline(once, result, t, TRUE)
    IN (lastOp'.op = "chooseReferencePipelineOk" /\ Store' = once)
        => /\ StripTime(twice) = StripTime(once)
           /\ t = now => twice = once
C11_PatchIdempotent ==
    [][\A r \in Runs \cup {UNDEF}, t \in 0..(MaxTime + 1) :
            ChooseTwice(r, t) /\ PipelineTwice(r, t)]_vars
C11_Witness ==
    /\ lastOp.op = "chooseReferenceChooseOk"
    /\ Len(history) >= 2
    /\ history[1].sessionId = lastOp.key
    /\ history[1].id = "h1"
    /\ Truthy(history[1].runId)

\* C12: a patch whose key matches no record is a silent no-op: no record is
\* created, the store, its order, the active pointer and the persisted list
\* stay as they were, and no error is mounted.
NoRecordOfSession(s) == \A i \in 1..Len(history) : history[i].sessionId # s
NoRecordOfRun(r) == \A i \in 1..Len(history) : history[i].runId # r
SilentNoOp ==
    /\ UNCHANGED storeVars
    /\ ErrorItem \in timeline' => ErrorItem \in timeline
PatchBySessionStep ==
    lastOp'.op \in {"chooseReferenceChooseOk", "chooseReferencePipelineOk"}
PatchByRunStep == lastOp'.op = "buildSynopsisOk"
C12_PatchNoTargetNoOp ==
    [][/\ (PatchBySessionStep /\ NoRecordOfSession(lastOp'.key)) => SilentNoOp
       /\ (PatchByRunStep /\ NoRecordOfRun(lastOp'.key)) => SilentNoOp]_vars
C12_Witness ==
    /\ lastOp.op \in {"chooseReferenceChooseOk", "chooseReferencePipelineOk"}
    /\ NoRecordOfSession(lastOp.key)
    /\ history # <<>>
C12_WitnessByRun ==
    /\ lastOp.op = "buildSynopsisOk"
    /\ NoRecordOfRun(lastOp.key)
    /\ history # <<>>

\* C13: when a choose-reference response for session s arrives and the store
\* holds a record with sessionId s, that record receives the response's
\* selectedReferenceDrug and runId and ends at the front; the number of records
\* is unchanged and the other records keep their order.
FirstOfSession(s) ==
    CHOOSE i \in 1..Len(history) :
        /\ history[i].sessionId = s
        /\ \A j \in 1..(i - 1) : history[j].sessionId # s
ChooseApplied(s) ==
    LET result == ChooseResult(s, lastOp'.arg[1])
        i == FirstOfSession(s)
    IN /\ Len(history') = Len(history)
       /\ history'[1].id = history[i].id
       /\ history'[1].sessionId = s
       /\ history'[1].selectedReferenceDrug = result.selected_reference_drug
       /\ history'[1].runId = OrNull(result.run_id)
       /\ RemoveAt(history', 1) = RemoveAt(history, i)
C13_ChoosePatchesAndPromotes ==
    [][(lastOp'.op = "chooseReferenceChooseOk" /\ ~NoRecordOfSession(lastOp'.key))
            => ChooseApplied(lastOp'.key)]_vars
C13_Witness ==
    /\ lastOp.op = "chooseReferenceChooseOk"
    /\ Len(history) = 2
    /\ history[1].sessionId = lastOp.key
    /\ history[1].selectedReferenceDrug = "drug:" \o lastOp.key
    /\ history[1].runId \in Runs
    /\ history[2].id = "h2"

\* C14: a successful patch by run id (a synopsis update) sets the matched
\* record's updatedAt to the current time and promotes the record to the front
\* of the store, as a patch by session does.
FirstOfRun(r) ==
    CHOOSE i \in 1..Len(history) :
        /\ history[i].runId = r
        /\ \A j \in 1..(i - 1) : history[j].runId # r
RunPatchPromotes(r) ==
    /\ history'[1].id = history[FirstOfRun(r)].id
    /\ history'[1].updatedAt = now
    /\ RemoveAt(history', 1) = RemoveAt(history, FirstOfRun(r))
C14_RunPatchPromotes ==
    [][(PatchByRunStep /\ ~NoRecordOfRun(lastOp'.key))
            => RunPatchPromotes(lastOp'.key)]_vars

\* C15: the store is ordered by recency: whenever a step creates or updates
\* records, one of the records it created or updated is the first element of
\* the store afterwards.
TouchedPositions ==
    {i \in 1..Len(history') : \A j \in 1..Len(history) : history[j] # history'[i]}
C15_RecencyOrder ==
    [][TouchedPositions # {} => 1 \in TouchedPositions]_vars

\* C16: when a finished run is materialized, ensureHistoryFromRun on a run id
\* that no record carries puts exactly one new record with that runId at the
\* front and keeps the rest; a second call with the same run changes nothing;
\* and when a record with that runId exists the call changes nothing.
EnsureOnce(r) == ensureHistoryFromRun(Store, SrvRun(r), TRUE)
EnsuredStep(r) ==
    LET run == SrvRun(r)
    IN Store' = updateHistoryFromPipeline(EnsureOnce(r),
                    buildPipelineResultFromRun(run), now, TRUE)
EnsureInsertsOnce(r) ==
    /\ NoRecordOfRun(r) =>
        /\ Len(EnsureOnce(r).history) = Len(history) + 1
        /\ EnsureOnce(r).history[1].runId = r
        /\ Tail(EnsureOnce(r).history) = history
        /\ \A i \in 1..Len(history) : EnsureOnce(r).history[1].id # history[i].id
    /\ ~NoRecordOfRun(r) => EnsureOnce(r) = Store
    /\ ensureHistoryFromRun(EnsureOnce(r), SrvRun(r), TRUE) = EnsureOnce(r)
C16_EnsureFromRunOnce ==
    [][(lastOp'.op = "pollRunDone" /\ EnsuredStep(lastOp'.key))
            => EnsureInsertsOnce(lastOp'.key)]_vars
C16_Witness ==
    /\ lastOp.op = "pollRunDone"
    /\ nextId = 1
    /\ \E i \in 1..Len(history) : history[i].runId = lastOp.key /\ history[i].id = "h1"
C16_WitnessExisting ==
    /\ lastOp.op = "pollRunDone"
    /\ nextId = 0
    /\ \E i \in 1..Len(history) : history[i].runId = lastOp.key

\* C17: the reconciled history is the projections of the server's runs in the
\* order the server reported them, followed by exactly the local records whose
\* runId is no run id of the list and whose sessionId is no non-null session id
\* of the list, in their prior order.
RunListOf(ids) == [i \in 1..Len(ids) |-> SrvRun(ids[i])]
ServerProjections(runs) == [i \in 1..Len(runs) |-> mapRunToHistory(runs[i])]
SurvivingLocals(runs, local) ==
    LET ids == {runs[i].id : i \in 1..Len(runs)}
        sessions == {runs[i].session_id : i \in 1..Len(runs)} \ {NULL, UNDEF}
        Survives(h) == h.runId \notin ids /\ h.sessionId \notin sessions
    IN SelectSeq(local, Survives)
C17_ReconcileResult ==
    [][lastOp'.op = "loadHistoryFromServer" =>
            history' = ServerProjections(RunListOf(lastOp'.arg))
                        \o SurvivingLocals(RunListOf(lastOp'.arg), history)]_vars
\* two local records met a non-empty run list: one was dropped, one survived
C17_Witness ==
    /\ lastOp.op = "loadHistoryFromServer"
    /\ nextId = 2
    /\ Len(lastOp.arg) >= 1
    /\ Len(history) = Len(lastOp.arg) + 1
    /\ history[Len(history)].runId = NULL
    /\ \E i \in 1..Len(lastOp.arg) : Truthy(history[i].sessionId)

\* C18: a failed run-list request changes nothing: the store, the set of
\* running run ids and the session-to-running-run map are what they were, and
\* no error is shown.
C18_RunListFailOpen ==
    [][lastOp'.op = "loadHistoryFromServerFail" =>
            /\ UNCHANGED <<history, activeHistoryId, persisted>>
            /\ UNCHANGED <<runningRunIds, runningBySession>>
            /\ (ErrorItem \in timeline' => ErrorItem \in timeline)]_vars
\* the request failed while the server held a running run and the local store
\* held two records
C18_Witness ==
    /\ lastOp.op = "loadHistoryFromServerFail"
    /\ Len(history) = 2
    /\ \E r \in Runs : srvStatus[r] = "running"

\* C19: after a successful reconciliation runningRunIds is exactly the set of
\* ids of the listed runs whose status is running, runningBySession maps a
\* session to a run only if that run is running and belongs to that session, and
\* every non-null session of a running run has an entry.
ListedRunning(ids) == {ids[i] : i \in {j \in 1..Len(ids) : srvStatus[ids[j]] = "running"}}
C19_RunningSetsAfterReconcile ==
    [][lastOp'.op = "loadHistoryFromServer" =>
        LET running == ListedRunning(lastOp'.arg)
        IN /\ runningRunIds' = running
           /\ \A s \in DOMAIN runningBySession' :
                /\ runningBySession'[s] \in running
                /\ srvSession[runningBySession'[s]] = s
           /\ \A r \in running :
                Truthy(srvSession[r]) => srvSession[r] \in DOMAIN runningBySession']_vars
\* the list held a finished run and a running run of some session
C19_Witness ==
    /\ lastOp.op = "loadHistoryFromServer"
    /\ runningRunIds # {}
    /\ DOMAIN runningBySession # {}
    /\ \E i \in 1..Len(lastOp.arg) : srvStatus[lastOp.arg[i]] = "done"

\* C20: a search response with at least one match adds exactly one new record
\* at the front of the store, carrying the response's session id, match count
\* and reference-option count, with selectedReferenceDrug null and runId null;
\* a response with zero matches, or a failed search, leaves the store unchanged.
SearchInserted(sid, matches) ==
    /\ Len(history') = Len(history) + 1
    /\ Tail(history') = history
    /\ \A i \in 1..Len(history) : history'[1].id # history[i].id
    /\ history'[1].sessionId = sid
    /\ history'[1].matchesCount = matches
    /\ history'[1].referenceOptionsCount = RefOptionsOf(matches)
    /\ history'[1].selectedReferenceDrug = NULL
    /\ history'[1].runId = NULL
C20_SearchInsertsOneRecord ==
    [][/\ (lastOp'.op = "onSearchOk" /\ lastOp'.arg[1] # "0")
            => SearchInserted(lastOp'.key, lastOp'.arg[1])
       /\ ((lastOp'.op = "onSearchOk" /\ lastOp'.arg[1] = "0") \/ lastOp'.op = "onSearchFail")
            => UNCHANGED <<history, activeHistoryId, persisted, nextId>>]_vars
C20_Witness ==
    /\ lastOp.op = "onSearchOk"
    /\ lastOp.arg = <<"12">>
    /\ Len(history) >= 2
    /\ history[1].sessionId = lastOp.key
    /\ history[1].referenceOptionsCount = "3"
C20_WitnessNoMatch ==
    /\ lastOp.op = "onSearchOk"
    /\ lastOp.arg = <<"0">>
    /\ Len(history) >= 1
C20_WitnessFailed ==
    /\ lastOp.op = "onSearchFail"
    /\ Len(history) >= 1

\* C21: after a successful delete of run r no record with runId r remains in
\* the store, the active pointer is cleared if and only if it referred to a
\* deleted record, and the other records keep their contents and order; a failed
\* delete leaves the store unchanged.
WithoutRun(r) ==
    LET Kept(h) == h.runId # r
    IN SelectSeq(history, Kept)
ActiveDeleted(r) ==
    \E i \in 1..Len(history) : history[i].id = activeHistoryId /\ history[i].runId = r
DeleteApplied(r) ==
    /\ history' = WithoutRun(r)
    /\ activeHistoryId' = IF ActiveDeleted(r) THEN NULL ELSE activeHistoryId
C21_DeleteRemovesRun ==
    [][/\ lastOp'.op = "deleteOk" => DeleteApplied(lastOp'.key)
       /\ lastOp'.op = "deleteFail" => UNCHANGED <<history, activeHistoryId, persisted>>]_vars

\* C22: a record leaves the store only by explicit deletion: every step other
\* than a delete response keeps every record id of the store in the store.
RecordIds(h) == {h[i].id : i \in 1..Len(h)}
C22_OnlyDeleteRemoves ==
    [][lastOp'.op # "deleteOk" => RecordIds(history) \subseteq RecordIds(history')]_vars
\* C22, amended: a record leaves the store only by explicit deletion or by
\* being superseded in a reconciliation, that is when the run list holds its
\* runId or its non-null sessionId.
Superseded(h, ids) ==
    \E k \in 1..Len(ids) :
        \/ h.runId = ids[k]
        \/ Truthy(h.sessionId) /\ srvSession[ids[k]] = h.sessionId
C22_OnlyDeleteOrSupersede ==
    [][lastOp'.op # "deleteOk" =>
        \A i \in 1..Len(history) :
            \/ history[i].id \in RecordIds(history')
            \/ lastOp'.op = "loadHistoryFromServer" /\ Superseded(history[i], lastOp'.arg)]_vars
\* a reconciliation, with no delete before it, after which the local record
\* h1 is gone while another local record is still there
C22_Witness ==
    /\ lastOp.op = "loadHistoryFromServer"
    /\ \A r \in Runs : srvStatus[r] # "deleted"
    /\ nextId = 2
    /\ "h1" \notin RecordIds(history)
    /\ "h2" \in RecordIds(history)

\* C23: every failed search, choose-reference, analyze or synopsis-build
\* request ends with an error message in the conversation and with no request
\* of that kind outstanding (it is not issued again).
FailedRequestStep ==
    lastOp'.op \in {"onSearchFail", "chooseReferenceFail", "buildSynopsisFail"}
C23_FailureShowsError ==
    [][FailedRequestStep =>
        /\ ErrorItem \in timeline'
        /\ lastOp'.op = "onSearchFail" => ~searchPending'
        /\ lastOp'.op = "chooseReferenceFail" => ~actionPending'
        /\ lastOp'.op = "buildSynopsisFail" => SynReq("build", lastOp'.key) \notin synReqs']_vars

\* C24: every step that changes the record store persists it: with
\* localStorage accepting the write, the persisted sequence is the first 100
\* records of the store at the end of the step.
C24_ChangesArePersisted ==
    [][history' # history => persisted' = Prefix(history', HistoryCap)]_vars

\* C25: when a poll completes for a run that has no session, no record other
\* than the one whose runId is that run's id is modified: every record of
\* another run, or of no run, is in the store afterwards as it was.
OthersUntouched(r) ==
    \A i \in 1..Len(history) :
        history[i].runId # r => \E j \in 1..Len(history') : history'[j] = history[i]
C25_NullSessionPatchesOwnRecord ==
    [][(lastOp'.op = "pollRunDone" /\ ~Truthy(srvSession[lastOp'.key]))
            => OthersUntouched(lastOp'.key)]_vars

\* C26: reconciliation works on the store as it stands when the run list
\* arrives: every record of that moment, those inserted or patched while the
\* request was in flight included, is in the store afterwards with the fields
\* it had, unless the list supersedes it by runId or sessionId.
C26_ReconcileKeepsConcurrentWork ==
    [][lastOp'.op = "loadHistoryFromServer" =>
        \A i \in 1..Len(history) :
            \/ Superseded(history[i], lastOp'.arg)
            \/ \E j \in 1..Len(history') : history'[j] = history[i]]_vars
\* a record made by a search and patched by a choose response while the run
\* list was awaited is in the store, behind the server's records
C26_Witness ==
    /\ lastOp.op = "loadHistoryFromServer"
    /\ Len(lastOp.arg) >= 1
    /\ Len(history) > Len(lastOp.arg)
    /\ history[Len(history)].id \in {"h1", "h2"}
    /\ Truthy(history[Len(history)].selectedReferenceDrug)

\* C27: when a poll for run r completes while the pending key denotes another
\* run or another session's token, the pending key is left as it is.
PendingBelongsTo(r) ==
    \/ pendingRunId = r
    \/ Truthy(srvSession[r]) /\ pendingRunId = SessionKey(srvSession[r])
C27_DoneKeepsOtherPending ==
    [][(lastOp'.op = "pollRunDone" /\ pendingRunId # NULL /\ ~PendingBelongsTo(lastOp'.key))
            => pendingRunId' = pendingRunId]_vars

\* C28: in every reachable state the active pointer is null or the id of a
\* record of the store.
C28_ActivePointerValid ==
    activeHistoryId = NULL \/ \E i \in 1..Len(history) : history[i].id = activeHistoryId

\* C29: at most one search request and at most one choose / analyze request
\* are in flight: a request is issued only while its flag is false and sets it,
\* a trigger received while the flag is true changes nothing, only the
\* request's response or failure resets the flag, and it is eventually reset.
SearchFlagSteps ==
    /\ lastOp'.op = "onSearch" => ~searchPending /\ searchPending'
    /\ lastOp'.op \in {"onSearchOk", "onSearchFail"} => searchPending /\ ~searchPending'
    /\ lastOp'.op \notin {"onSearch", "onSearchOk", "onSearchFail"} => UNCHANGED searchPending
ActionFlagSteps ==
    /\ lastOp'.op = "chooseReference" => ~actionPending /\ actionPending'
    /\ lastOp'.op \in {"chooseReferencePipelineOk", "chooseReferenceChooseOk",
                       "chooseReferenceFail"} => actionPending /\ ~actionPending'
    /\ lastOp'.op \notin {"chooseReference", "chooseReferencePipelineOk",
                          "chooseReferenceChooseOk", "chooseReferenceFail"}
            => UNCHANGED <<actionPending, actionReq>>
    /\ actionPending' <=> actionReq' # NoReq
IgnoredTriggerSteps ==
    lastOp'.op \in {"onSearchWhilePending", "chooseReferenceWhilePending"}
        => UNCHANGED <<storeVars, pendVars, reqVars, timeline, pollVars, srvVars>>
C29_OneRequestInFlight ==
    /\ [][SearchFlagSteps /\ ActionFlagSteps /\ IgnoredTriggerSteps]_vars
    /\ (searchPending ~> ~searchPending)
    /\ (actionPending ~> ~actionPending)
\* a search and an analyze request are in flight together and a second
\* trigger has just been ignored
C29_Witness ==
    /\ searchPending
    /\ actionPending
    /\ lastOp.op \in {"onSearchWhilePending", "chooseReferenceWhilePending"}

\* C30: pendingSessions holds a session id only while an analyze request of
\* this client for that session is in flight: it is empty whenever no choose /
\* analyze request is outstanding, it is the request's session while an analyze
\* request is outstanding, and it never holds more than one id.
C30_PendingSessionsFollowRequest ==
    /\ Cardinality(pendingSessions) <= 1
    /\ ~actionPending => pendingSessions = {}
    /\ (actionPending /\ actionReq.mode = "pipeline")
            => pendingSessions = {actionReq.sessionId} \cap Sessions
    /\ (actionPending /\ actionReq.mode = "choose") => pendingSessions = {}
\* an analyze request has failed and its session is no longer marked
C30_Witness ==
    /\ lastOp.op = "chooseReferenceFail"
    /\ lastOp.key \in Sessions
    /\ pendingSessions = {}
    /\ Len(history) >= 1
C30_WitnessInFlight ==
    /\ actionPending
    /\ actionReq.mode = "pipeline"
    /\ pendingSessions = {actionReq.sessionId}

\* C31: once a record of the store has a non-null runId, no patch (choose
\* response, pipeline response, poll completion, synopsis update) changes it
\* to another value or clears it: after every patch step, a record that is
\* still in the store carries the runId it had before.
PatchSteps ==
    {"chooseReferenceChooseOk", "chooseReferencePipelineOk", "pollRunDone",
     "buildSynopsisOk", "hydrateSynopsisSection"}
RunIdKept ==
    \A i \in 1..Len(history), j \in 1..Len(history') :
        (history[i].id = history'[j].id /\ history[i].runId # NULL)
            => history'[j].runId = history[i].runId
C31_RunIdNeverRewritten ==
    [][lastOp'.op \in PatchSteps => RunIdKept]_vars

=============================================================================
